---------------------------- MODULE Spec2Model ----------------------------
(***************************************************************************)
(* A model of the curvature-clues scoring code:                            *)
(*   src/precompute_scores/precompute_cifar10_mentr_scores.py  (main, the  *)
(*       seed block, modified_prediction_entropy_batch, the scoring loop)  *)
(*   src/models/lenet5.py                         (LeNet5: tensor shapes) *)
(*                                                                         *)
(* Three specifications share the variables:                               *)
(*   Spec       one run of main(), from argument parsing to teardown       *)
(*   SpecMentr  calls of modified_prediction_entropy_batch                 *)
(*   SpecLeNet  a constructed LeNet5 and calls of forward / eval / train   *)
(*                                                                         *)
(* Python sequences are 0-based; here positions and index entries are     *)
(* 1-based (entry i of the model stands for entry i-1 of the tensor).      *)
(***************************************************************************)
EXTENDS Integers, Sequences, FiniteSets, TLC

VARIABLES
    \* ---- main() ----
    pc,           \* position in main
    args,         \* argparse namespace (the flags the run reads)
    fail,         \* the exception that ended the run, "" when none
    log,          \* steps executed so far, in order
    osenv,        \* os.environ entries written by the run
    seeded,       \* the four manual_seed / seed calls were made
    det,          \* deterministic-mode call that succeeded, "none" when none
    torch_version,\* torch.__version__ as read at line 78
    device,       \* torch.device chosen at line 87
    index,        \* the loaded index tensor
    dataset_len,  \* len(index)
    dataset,      \* what load_dataset returned (loader lengths)
    pg_init,      \* the default process group is initialised
    weights,      \* where the loaded state_dict came from
    t_idx,        \* position in the transformations list
    scores,       \* the score tensor of the current transformation
    writes,       \* per position: number of loader examples stored there
    total,        \* running example count of the scoring loop
    batches,      \* batches consumed by the scoring loop
    slice_sum,    \* sum of len(idxs) over the batches consumed
    passes,       \* completed passes over the loader
    blob,         \* array handed to upload_numpy_as_blob
    uploads,      \* number of successful uploads
    \* ---- modified_prediction_entropy_batch ----
    m_outs, m_labels, m_ret,
    \* ---- LeNet5 ----
    lenet, fwd

vars == <<pc, args, fail, log, osenv, seeded, det, torch_version, device,
          index, dataset_len, dataset, pg_init, weights, t_idx, scores,
          writes, total, batches, slice_sum, passes, blob, uploads,
          m_outs, m_labels, m_ret, lenet, fwd>>

mainVars == <<pc, args, fail, log, osenv, seeded, det, torch_version, device,
              index, dataset_len, dataset, pg_init, weights, t_idx, scores,
              writes, total, batches, slice_sum, passes, blob, uploads>>
mentrVars == <<m_outs, m_labels, m_ret>>
lenetVars == <<lenet, fwd>>

---------------------------------------------------------------------------
(* Bounds of the model.                                                    *)

\* probabilities are multiples of 1/Grid
Grid == 4
\* classes of a probability vector
NumClasses == 3
\* examples in one call of modified_prediction_entropy_batch
MaxMentrBatch == 2
\* longest index file / dataset split
MaxLen == 3
\* largest --train_batch_size / --test_batch_size
MaxBatchSize == 2
\* LeNet5 inputs
MaxImgBatch == 2
MaxChannels == 2
MaxClasses == 2
MinSide == 27
MaxSide == 32

Range(s) == {s[i] : i \in DOMAIN s}
Min(a, b) == IF a <= b THEN a ELSE b

RECURSIVE SumSeq(_)
SumSeq(s) == IF s = <<>> THEN 0 ELSE Head(s) + SumSeq(Tail(s))

---------------------------------------------------------------------------
(* float32 values, in millionths; inf and nan as in IEEE 754.              *)

Fin(v) == [kind |-> "fin", v |-> v]
NInf == [kind |-> "inf", v |-> -1]
NaN == [kind |-> "nan", v |-> 0]

IsFinite(x) == x.kind = "fin"
Sign(v) == IF v > 0 THEN 1 ELSE IF v < 0 THEN -1 ELSE 0

\* ln(n) in millionths, n = 1..8
LnNat == <<0, 693147, 1098612, 1386294, 1609438, 1791759, 1945910, 2079442>>

\* ln(1e-9) in millionths: the value of log(1 - p + 1e-9) at p = 1
LnEps == -20723266

\* torch.log(k/Grid): log(0) is -inf
TorchLog(k) == IF k = 0 THEN NInf ELSE Fin(LnNat[k] - LnNat[Grid])

\* torch.log(1 - k/Grid + 1e-9), line 158.  float32 keeps 1e-9 only when
\* 1 - p is exactly 0; added to a multiple of 1/Grid it is rounded away.
TorchLogGuarded(k) == IF k = Grid THEN Fin(LnEps) ELSE Fin(LnNat[Grid - k] - LnNat[Grid])

\* (num/Grid) * x for a float x: 0 * inf is nan
Scale(num, x) ==
    CASE x.kind = "nan" -> NaN
      [] x.kind = "inf" -> IF num = 0 THEN NaN
                           ELSE [kind |-> "inf", v |-> Sign(num) * x.v]
      [] OTHER -> Fin((num * x.v) \div Grid)

FAdd(x, y) ==
    CASE x.kind = "nan" \/ y.kind = "nan" -> NaN
      [] x.kind = "inf" /\ y.kind = "inf" -> IF x.v = y.v THEN x ELSE NaN
      [] x.kind = "inf" -> x
      [] y.kind = "inf" -> y
      [] OTHER -> Fin(x.v + y.v)

RECURSIVE FSum(_)
FSum(s) == IF s = <<>> THEN Fin(0) ELSE FAdd(Head(s), FSum(Tail(s)))

---------------------------------------------------------------------------
(* modified_prediction_entropy_batch, lines 136-164.                       *)
(* A row of outs is a function class -> numerator over Grid.               *)

\* F.one_hot(labels, num_classes), line 151
OneHot(label, n) == [c \in 1..n |-> IF c = label THEN 1 ELSE 0]

\* line 154: -(1 - outs[i, label]) * log(outs[i, label])
CorrectLabelTerm(row, label) == Scale(-(Grid - row[label]), TorchLog(row[label]))

\* line 157: outs * (1 - labels_one_hot)
IncorrectProbs(row, label) ==
    [c \in DOMAIN row |-> row[c] * (1 - OneHot(label, Len(row))[c])]

\* lines 158-159: (-incorrect_probs * log(1 - incorrect_probs + 1e-9)).sum(dim=1)
IncorrectLabelsSum(row, label) ==
    LET ip == IncorrectProbs(row, label)
    IN FSum([c \in DOMAIN row |-> Scale(-ip[c], TorchLogGuarded(ip[c]))])

\* line 162, one example
MentrRow(row, label) == FAdd(CorrectLabelTerm(row, label), IncorrectLabelsSum(row, label))

\* the whole batch
modified_prediction_entropy_batch(outs, labels) ==
    [i \in DOMAIN outs |-> MentrRow(outs[i], labels[i])]

\* probability vectors: entries in [0,1] summing to 1
ProbVectors == {p \in [1..NumClasses -> 0..Grid] : SumSeq(p) = Grid}

InitMentrIdle == m_outs = <<>> /\ m_labels = <<>> /\ m_ret = <<>>

\* the arguments of one call: a batch of probability rows and true labels
InitMentr ==
    /\ \E b \in 1..MaxMentrBatch :
         /\ m_outs \in [1..b -> ProbVectors]
         /\ m_labels \in [1..b -> 1..NumClasses]
    /\ m_ret = <<>>

CallMentr ==
    /\ m_ret = <<>>
    /\ m_ret' = modified_prediction_entropy_batch(m_outs, m_labels)
    /\ UNCHANGED <<m_outs, m_labels, mainVars, lenetVars>>

---------------------------------------------------------------------------
(* LeNet5, src/models/lenet5.py: tensor shapes through forward.            *)
(* A tensor is its shape, or the error the layer raised.                   *)

Tensor(shape) == [ok |-> TRUE, shape |-> shape, why |-> ""]
TensorError(why) == [ok |-> FALSE, shape |-> <<>>, why |-> why]

\* nn.Conv2d(cin, cout, kernel_size=k, stride=1, padding=p) on <<B, C, H, W>>
Conv2d(t, cin, cout, k, p) ==
    IF ~t.ok THEN t
    ELSE IF t.shape[2] # cin THEN TensorError("conv2d: channel mismatch")
    ELSE IF t.shape[3] + 2 * p < k \/ t.shape[4] + 2 * p < k
         THEN TensorError("conv2d: kernel larger than input")
    ELSE Tensor(<<t.shape[1], cout, t.shape[3] + 2 * p - k + 1,
                  t.shape[4] + 2 * p - k + 1>>)

\* nn.AvgPool2d(kernel_size=k, stride=k) on <<B, C, H, W>>
AvgPool2d(t, k) ==
    IF ~t.ok THEN t
    ELSE IF t.shape[3] < k \/ t.shape[4] < k
         THEN TensorError("avg_pool2d: output size too small")
    ELSE Tensor(<<t.shape[1], t.shape[2], ((t.shape[3] - k) \div k) + 1,
                  ((t.shape[4] - k) \div k) + 1>>)

\* nn.BatchNorm2d(num_features=nf): in training mode it needs more than one
\* value per channel
BatchNorm2d(t, nf, training) ==
    IF ~t.ok THEN t
    ELSE IF t.shape[2] # nf THEN TensorError("batchnorm2d: feature mismatch")
    ELSE IF training /\ t.shape[1] * t.shape[3] * t.shape[4] = 1
         THEN TensorError("batchnorm2d: one value per channel when training")
    ELSE t

\* nn.BatchNorm1d(num_features=nf) on <<B, F>>
BatchNorm1d(t, nf, training) ==
    IF ~t.ok THEN t
    ELSE IF t.shape[2] # nf THEN TensorError("batchnorm1d: feature mismatch")
    ELSE IF training /\ t.shape[1] = 1
         THEN TensorError("batchnorm1d: one value per channel when training")
    ELSE t

\* x.flatten(1)
Flatten1(t) ==
    IF ~t.ok THEN t
    ELSE Tensor(<<t.shape[1], t.shape[2] * t.shape[3] * t.shape[4]>>)

\* nn.Linear(fin, fout) on <<B, F>>
Linear(t, fin, fout) ==
    IF ~t.ok THEN t
    ELSE IF t.shape[2] # fin THEN TensorError("linear: shape mismatch")
    ELSE Tensor(<<t.shape[1], fout>>)

\* the layers of __init__, lines 9-20 (relu keeps the shape)
\* conv1 built without padding=2
conv1_unpadded(t, net) == Conv2d(t, net.input_size, 6, 5, 0)
conv1(t, net) == Conv2d(t, net.input_size, 6, 5, 2)
batchnorm1(t, net) == BatchNorm2d(t, 6, net.training)
avg_pool1(t) == AvgPool2d(t, 2)
conv2(t) == Conv2d(t, 6, 16, 5, 0)
batchnorm2(t, net) == BatchNorm2d(t, 16, net.training)
avg_pool2(t) == AvgPool2d(t, 2)
linear3(t) == Linear(t, 5 * 5 * 16, 120)
batchnorm3(t, net) == BatchNorm1d(t, 120, net.training)
linear4(t) == Linear(t, 120, 84)
batchnorm4(t, net) == BatchNorm1d(t, 84, net.training)
classifier(t, net) == Linear(t, 84, net.num_classes)

NoCall == [status |-> "none", out |-> <<>>, fet |-> <<>>]

\* LeNet5.forward on x of shape <<B, C, H, W>>, lines 22-32
Forward(net, x, latent) ==
    LET x1 == avg_pool1(batchnorm1(conv1(Tensor(x), net), net))
        x2 == avg_pool2(batchnorm2(conv2(x1), net))
        x3 == Flatten1(x2)
        x4 == batchnorm3(linear3(x3), net)
        fet == batchnorm4(linear4(x4), net)
        x5 == classifier(fet, net)
    IN  IF ~x5.ok THEN [status |-> x5.why, out |-> <<>>, fet |-> <<>>]
        ELSE [status |-> "ok", out |-> x5.shape,
              fet |-> IF latent THEN fet.shape ELSE <<>>]

InitLeNetIdle == lenet = [input_size |-> 1, num_classes |-> 1, training |-> TRUE]
                 /\ fwd = [x |-> <<>>, latent |-> FALSE, training |-> TRUE, ret |-> NoCall]

\* LeNet5(input_size, num_classes): a fresh nn.Module is in training mode
InitLeNet ==
    /\ \E c \in 1..MaxChannels, k \in 1..MaxClasses :
         lenet = [input_size |-> c, num_classes |-> k, training |-> TRUE]
    /\ fwd = [x |-> <<>>, latent |-> FALSE, training |-> TRUE, ret |-> NoCall]

CallForward ==
    /\ fwd.ret.status = "none"
    /\ \E b \in 1..MaxImgBatch, c \in 1..MaxChannels,
       h \in MinSide..MaxSide, w \in MinSide..MaxSide, latent \in BOOLEAN :
         /\ fwd' = [x |-> <<b, c, h, w>>, latent |-> latent,
                    training |-> lenet.training,
                    ret |-> Forward(lenet, <<b, c, h, w>>, latent)]
         /\ UNCHANGED <<lenet, mainVars, mentrVars>>

\* net.eval()
CallEval ==
    /\ lenet' = [lenet EXCEPT !.training = FALSE]
    /\ UNCHANGED <<fwd, mainVars, mentrVars>>

\* net.train()
CallTrain ==
    /\ lenet' = [lenet EXCEPT !.training = TRUE]
    /\ UNCHANGED <<fwd, mainVars, mentrVars>>

---------------------------------------------------------------------------
(* main(), src/precompute_scores/precompute_cifar10_mentr_scores.py        *)

\* the one enabled entry of the transformations list, lines 184-196
Transformations == <<[shift_x |-> 0, shift_y |-> 0, flip |-> FALSE]>>

\* torch.__version__ strings of the installs the run may meet:
\* "1.7.1", "1.7.1+cu110", "1.8.0", "1.13.1+cu117", "2.0.1"
\* (local: the last component carries a "+cuXXX" local version label)
TorchVersions ==
    { [major |-> 1, minor |-> 7, local |-> FALSE],
      [major |-> 1, minor |-> 7, local |-> TRUE],
      [major |-> 1, minor |-> 8, local |-> FALSE],
      [major |-> 1, minor |-> 13, local |-> TRUE],
      [major |-> 2, minor |-> 0, local |-> FALSE] }
NoVersion == [major |-> 0, minor |-> 0, local |-> FALSE]

\* line 78: list(map(float, torch.__version__.split("."))) raises ValueError
\* on a component such as "1+cu110"
VersionParses(v) == ~v.local

\* line 79: version_list[0] <= 1 and version_list[1] < 8
BelowOneEight(v) == v.major <= 1 /\ v.minor < 8

\* torch.set_deterministic exists from 1.7 (consulted only below 1.8);
\* torch.use_deterministic_algorithms from 1.8 (the reason for the branch at
\* line 79)
HasSetDeterministic(v) == v.major = 1 /\ v.minor >= 7
HasUseDeterministicAlgorithms(v) == v.major > 1 \/ (v.major = 1 /\ v.minor >= 8)

\* lines 77-84: the call that ends up enabling deterministic mode, "none"
\* when the except handler's own call raises AttributeError
DeterministicCall(v) ==
    LET fallback == IF HasUseDeterministicAlgorithms(v)
                    THEN "use_deterministic_algorithms" ELSE "none"
    IN  IF ~VersionParses(v) THEN fallback
        ELSE IF BelowOneEight(v)
             THEN IF HasSetDeterministic(v) THEN "set_deterministic" ELSE fallback
             ELSE fallback

DefaultArgs == [use_seed |-> TRUE, test |-> FALSE, dist |-> FALSE,
                load_from_azure_blob |-> FALSE,
                train_batch_size |-> 1, test_batch_size |-> 1]
NoDataset == [train_len |-> 0, test_len |-> 0, distributed |-> FALSE]
NoBlob == <<>>

\* torch.zeros((dataset_len)), line 199
Zeros(n) == [i \in 1..n |-> Fin(0)]

\* permutations of 1..n
Perms(n) == {p \in [1..n -> 1..n] : \A i, j \in 1..n : p[i] = p[j] => i = j}

\* the loader iterated by the scoring loop, line 183
LoaderLen == IF args.test THEN dataset.test_len ELSE dataset.train_len
LoaderBatchSize == IF args.test THEN args.test_batch_size ELSE args.train_batch_size

\* softmax(net(batch_data)) and the label of the example at loader position
\* pos (lines 172-174): the network is a fixed function in eval mode.  The
\* true class holds TrueNum/Grid of the mass, the next class the rest.
ExampleLabel(pos) == ((pos - 1) % NumClasses) + 1
ExampleProb(pos) ==
    LET y == ExampleLabel(pos)
        k == ((pos - 1) % Grid) + 1
    IN  [c \in 1..NumClasses |->
            IF c = y THEN k
            ELSE IF c = (y % NumClasses) + 1 THEN Grid - k ELSE 0]

\* m_entropy of the batch holding loader positions first..last, lines 172-176
BatchMentr(first, last) ==
    modified_prediction_entropy_batch(
        [i \in 1..(last - first + 1) |-> ExampleProb(first + i - 1)],
        [i \in 1..(last - first + 1) |-> ExampleLabel(first + i - 1)])

\* index[start_idx:stop_idx], line 206: a slice stops at the end of index
IndexSlice(start, stop) == SubSeq(index, start + 1, Min(stop, Len(index)))

\* scores[idxs] = value, line 215: value must have len(idxs) entries or one
AssignFits(idxs, value) == Len(value) = Len(idxs) \/ Len(value) = 1
Assigned(sc, idxs, value) ==
    [p \in DOMAIN sc |->
        IF \E j \in DOMAIN idxs : idxs[j] = p
        THEN LET j == CHOOSE j \in DOMAIN idxs :
                        idxs[j] = p /\ \A k \in DOMAIN idxs : idxs[k] = p => k <= j
             IN  IF Len(value) = 1 THEN value[1] ELSE value[j]
        ELSE sc[p]]
Written(w, idxs) ==
    [p \in DOMAIN w |-> w[p] + Cardinality({j \in DOMAIN idxs : idxs[j] = p})]

\* the loop ending one batch early
LoopExhaustedEarly == total + LoaderBatchSize >= LoaderLen

\* the for loop over the loader has no batch left, line 203
LoopExhausted == total >= LoaderLen

\* an uncaught exception ends the process
Raise(why) == pc' = "failed" /\ fail' = why

InitMain ==
    /\ pc = "parse"
    /\ args = DefaultArgs
    /\ fail = ""
    /\ log = <<>>
    /\ osenv = {}
    /\ seeded = FALSE
    /\ det = "none"
    /\ torch_version = NoVersion
    /\ device = "unset"
    /\ index = <<>>
    /\ dataset_len = 0
    /\ dataset = NoDataset
    /\ pg_init = FALSE
    /\ weights = "none"
    /\ t_idx = 0
    /\ scores = <<>>
    /\ writes = <<>>
    /\ total = 0
    /\ batches = 0
    /\ slice_sum = 0
    /\ passes = 0
    /\ blob = NoBlob
    /\ uploads = 0

\* lines 27-64: parser.parse_args()
ParseArgs ==
    /\ pc = "parse"
    /\ \E us \in BOOLEAN, te \in BOOLEAN, di \in BOOLEAN, az \in BOOLEAN,
          trb \in 1..MaxBatchSize, teb \in 1..MaxBatchSize :
         args' = [use_seed |-> us, test |-> te, dist |-> di,
                  load_from_azure_blob |-> az,
                  train_batch_size |-> trb, test_batch_size |-> teb]
    /\ pc' = "seed"
    /\ log' = Append(log, "parse_args")
    /\ UNCHANGED <<fail, osenv, seeded, det, torch_version, device, index,
                   dataset_len, dataset, pg_init, weights, t_idx, scores, writes,
                   total, batches, slice_sum, passes, blob, uploads,
                   mentrVars, lenetVars>>

\* lines 67-84: reproducibility settings
SeedBlock ==
    /\ pc = "seed"
    /\ log' = Append(log, "seed")
    /\ IF ~args.use_seed
       THEN /\ pc' = "logger"
            /\ UNCHANGED <<fail, osenv, seeded, det, torch_version>>
       ELSE \E v \in TorchVersions :
            /\ osenv' = osenv \cup {"CUBLAS_WORKSPACE_CONFIG", "OMP_NUM_THREADS"}
            /\ seeded' = TRUE
            /\ torch_version' = v
            /\ det' = DeterministicCall(v)
            /\ IF DeterministicCall(v) = "none"
               THEN Raise("AttributeError: use_deterministic_algorithms")
               ELSE pc' = "logger" /\ UNCHANGED fail
    /\ UNCHANGED <<args, device, index, dataset_len, dataset, pg_init, weights,
                   t_idx, scores, writes, total, batches, slice_sum, passes,
                   blob, uploads, mentrVars, lenetVars>>

\* lines 87-102: device choice, logging.FileHandler under ./logs
SetupLogger ==
    /\ pc = "logger"
    /\ log' = Append(log, "logger")
    /\ \E cuda \in BOOLEAN, logs_dir \in BOOLEAN :
         /\ device' = IF cuda THEN "cuda" ELSE "cpu"
         /\ IF logs_dir THEN pc' = "load_index" /\ UNCHANGED fail
            ELSE Raise("FileNotFoundError: ./logs")
    /\ UNCHANGED <<args, osenv, seeded, det, torch_version, index, dataset_len,
                   dataset, pg_init, weights, t_idx, scores, writes, total,
                   batches, slice_sum, passes, blob, uploads, mentrVars, lenetVars>>

\* lines 104-105: index = torch.load(...); dataset_len = len(index)
LoadIndex ==
    /\ pc = "load_index"
    /\ log' = Append(log, "load_index")
    /\ \/ /\ Raise("FileNotFoundError: data_index_cifar100.pt")
          /\ UNCHANGED <<index, dataset_len>>
       \/ \E n \in 1..MaxLen : \E p \in Perms(n) :
            /\ index' = p
            /\ dataset_len' = Len(p)
            /\ pc' = "load_dataset"
            /\ UNCHANGED fail
    /\ UNCHANGED <<args, osenv, seeded, det, torch_version, device, dataset,
                   pg_init, weights, t_idx, scores, writes, total, batches,
                   slice_sum, passes, blob, uploads, mentrVars, lenetVars>>

\* utils.load_dataset.load_dataset: the train loader emits one example per
\* entry of index, in that order; the test loader emits the test split,
\* whose length m does not depend on index
load_dataset(idx, m, distributed) ==
    [train_len |-> Len(idx), test_len |-> m, distributed |-> distributed]

\* lines 108-120: dataset = load_dataset(..., index=index, distributed=args.dist)
LoadDataset ==
    /\ pc = "load_dataset"
    /\ log' = Append(log, "load_dataset")
    /\ \/ /\ Raise("RuntimeError: dataset not found")
          /\ UNCHANGED dataset
       \/ \E m \in 1..MaxLen :
            /\ dataset' = load_dataset(index, m, args.dist)
            /\ pc' = "build_net"
            /\ UNCHANGED fail
    /\ UNCHANGED <<args, osenv, seeded, det, torch_version, device, index,
                   dataset_len, pg_init, weights, t_idx, scores, writes, total,
                   batches, slice_sum, passes, blob, uploads, mentrVars, lenetVars>>

\* lines 122-233: net = resnet18_k(...), the nested function definitions
BuildNet ==
    /\ pc = "build_net"
    /\ log' = Append(log, "build_net")
    /\ pc' = "log_epoch"
    /\ UNCHANGED <<args, fail, osenv, seeded, det, torch_version, device, index,
                   dataset_len, dataset, pg_init, weights, t_idx, scores, writes,
                   total, batches, slice_sum, passes, blob, uploads,
                   mentrVars, lenetVars>>

\* line 235: logger.info(f"Loading model for epoch {epoch}").  main never
\* assigns epoch, so the name is looked up in the module's globals: it is
\* bound only if the importer of the module put it there, and unbound when
\* the file runs as a script.
LogLoadingModel ==
    /\ pc = "log_epoch"
    /\ log' = Append(log, "log_epoch")
    /\ \E epoch_bound \in BOOLEAN :
         IF epoch_bound THEN pc' = "load_weights" /\ UNCHANGED fail
         ELSE Raise("NameError: name 'epoch' is not defined")
    /\ UNCHANGED <<args, osenv, seeded, det, torch_version, device, index,
                   dataset_len, dataset, pg_init, weights, t_idx, scores, writes,
                   total, batches, slice_sum, passes, blob, uploads,
                   mentrVars, lenetVars>>

\* a failed load that is swallowed: the run goes on with the initial weights
LoadWeightsSwallowed ==
    /\ pc = "load_weights"
    /\ log' = Append(log, "load_weights")
    /\ \E loadable \in BOOLEAN :
         weights' = IF ~loadable THEN weights
                    ELSE IF args.load_from_azure_blob THEN "azure_blob" ELSE "local_disk"
    /\ pc' = "inference"
    /\ UNCHANGED <<args, fail, osenv, seeded, det, torch_version, device, index,
                   dataset_len, dataset, pg_init, t_idx, scores, writes, total,
                   batches, slice_sum, passes, blob, uploads, mentrVars, lenetVars>>

\* lines 236-246: the state_dict from the blob store or from local disk
LoadWeights ==
    /\ pc = "load_weights"
    /\ log' = Append(log, "load_weights")
    /\ \E loadable \in BOOLEAN :
         IF loadable
         THEN /\ weights' = IF args.load_from_azure_blob THEN "azure_blob" ELSE "local_disk"
              /\ pc' = "inference"
              /\ UNCHANGED fail
         ELSE /\ Raise("FileNotFoundError: checkpoint")
              /\ UNCHANGED weights
    /\ UNCHANGED <<args, osenv, seeded, det, torch_version, device, index,
                   dataset_len, dataset, pg_init, t_idx, scores, writes, total,
                   batches, slice_sum, passes, blob, uploads, mentrVars, lenetVars>>

\* lines 248-249: inference(net, dataset.test_loader, device)
Inference ==
    /\ pc = "inference"
    /\ log' = Append(log, "inference")
    /\ pc' = "score"
    /\ t_idx' = 0
    /\ UNCHANGED <<args, fail, osenv, seeded, det, torch_version, device, index,
                   dataset_len, dataset, pg_init, weights, scores, writes, total,
                   batches, slice_sum, passes, blob, uploads, mentrVars, lenetVars>>

\* lines 198-202: the next transformation; fresh scores, total = 0
StartTransformation ==
    /\ pc = "score"
    /\ t_idx < Len(Transformations)
    /\ log' = Append(log, "score_start")
    /\ scores' = Zeros(dataset_len)
    /\ writes' = [i \in 1..dataset_len |-> 0]
    /\ total' = 0
    /\ batches' = 0
    /\ slice_sum' = 0
    /\ pc' = "loop"
    /\ UNCHANGED <<args, fail, osenv, seeded, det, torch_version, device, index,
                   dataset_len, dataset, pg_init, weights, t_idx, passes, blob,
                   uploads, mentrVars, lenetVars>>

\* lines 203-215: one batch of the loader
Batch ==
    /\ pc = "loop"
    /\ ~LoopExhausted
    /\ LET n == Min(LoaderBatchSize, LoaderLen - total)
           start_idx == total
           stop_idx == total + n
           idxs == IndexSlice(start_idx, stop_idx)
           m_entropy == BatchMentr(start_idx + 1, stop_idx)
       IN  /\ total' = stop_idx
           /\ batches' = batches + 1
           /\ slice_sum' = slice_sum + Len(idxs)
           /\ log' = Append(log, "batch")
           /\ IF device # "cuda"
              THEN /\ Raise("RuntimeError: no CUDA device")
                   /\ UNCHANGED <<scores, writes>>
              ELSE IF ~AssignFits(idxs, m_entropy)
              THEN /\ Raise("RuntimeError: shape mismatch")
                   /\ UNCHANGED <<scores, writes>>
              ELSE /\ scores' = Assigned(scores, idxs, m_entropy)
                   /\ writes' = Written(writes, idxs)
                   /\ UNCHANGED <<pc, fail>>
    /\ UNCHANGED <<args, osenv, seeded, det, torch_version, device, index,
                   dataset_len, dataset, pg_init, weights, t_idx, passes, blob,
                   uploads, mentrVars, lenetVars>>

\* line 203: the loader is exhausted, the for loop ends
ExitLoop ==
    /\ pc = "loop"
    /\ LoopExhausted
    /\ passes' = passes + 1
    /\ pc' = "save"
    /\ log' = Append(log, "loop_end")
    /\ UNCHANGED <<args, fail, osenv, seeded, det, torch_version, device, index,
                   dataset_len, dataset, pg_init, weights, t_idx, scores, writes,
                   total, batches, slice_sum, blob, uploads, mentrVars, lenetVars>>

\* lines 218-233: upload_numpy_as_blob(..., scores.numpy())
Upload ==
    /\ pc = "save"
    /\ log' = Append(log, "upload")
    /\ \E reachable \in BOOLEAN :
         IF reachable
         THEN /\ blob' = scores
              /\ uploads' = uploads + 1
              /\ t_idx' = t_idx + 1
              /\ pc' = "score"
              /\ UNCHANGED fail
         ELSE /\ Raise("ConnectionError: blob store")
              /\ UNCHANGED <<blob, uploads, t_idx>>
    /\ UNCHANGED <<args, osenv, seeded, det, torch_version, device, index,
                   dataset_len, dataset, pg_init, weights, scores, writes, total,
                   batches, slice_sum, passes, mentrVars, lenetVars>>

\* line 198: the transformations list is exhausted, the function returns
ReturnFromScore ==
    /\ pc = "score"
    /\ t_idx >= Len(Transformations)
    /\ pc' = "teardown"
    /\ log' = Append(log, "score_return")
    /\ UNCHANGED <<args, fail, osenv, seeded, det, torch_version, device, index,
                   dataset_len, dataset, pg_init, weights, t_idx, scores, writes,
                   total, batches, slice_sum, passes, blob, uploads,
                   mentrVars, lenetVars>>

\* lines 254-255: destroy_process_group() asserts an initialised group
Teardown ==
    /\ pc = "teardown"
    /\ IF args.dist
       THEN /\ log' = Append(log, "destroy_process_group")
            /\ IF pg_init
               THEN pg_init' = FALSE /\ pc' = "done" /\ UNCHANGED fail
               ELSE Raise("AssertionError: process group not initialised")
                    /\ UNCHANGED pg_init
       ELSE /\ pc' = "done"
            /\ UNCHANGED <<log, fail, pg_init>>
    /\ UNCHANGED <<args, osenv, seeded, det, torch_version, device, index,
                   dataset_len, dataset, weights, t_idx, scores, writes, total,
                   batches, slice_sum, passes, blob, uploads, mentrVars, lenetVars>>

Next ==
    \/ ParseArgs
    \/ SeedBlock
    \/ SetupLogger
    \/ LoadIndex
    \/ LoadDataset
    \/ BuildNet
    \/ LogLoadingModel
    \/ LoadWeights
    \/ Inference
    \/ StartTransformation
    \/ Batch
    \/ ExitLoop
    \/ Upload
    \/ ReturnFromScore
    \/ Teardown

Init == InitMain /\ InitMentrIdle /\ InitLeNetIdle
Spec == Init /\ [][Next]_vars

NextMentr == CallMentr
InitMentrSpec == InitMain /\ InitMentr /\ InitLeNetIdle
SpecMentr == InitMentrSpec /\ [][NextMentr]_vars

NextLeNet == CallForward \/ CallEval \/ CallTrain
InitLeNetSpec == InitMain /\ InitMentrIdle /\ InitLeNet
SpecLeNet == InitLeNetSpec /\ [][NextLeNet]_vars

---------------------------------------------------------------------------
(* Properties.                                                             *)

Terminated == pc \in {"done", "failed"}

\* failures of the surroundings of a run, not of its inputs' handling
EnvironmentFailures ==
    { "AttributeError: use_deterministic_algorithms",
      "FileNotFoundError: ./logs",
      "FileNotFoundError: data_index_cifar100.pt",
      "RuntimeError: dataset not found",
      "FileNotFoundError: checkpoint",
      "RuntimeError: no CUDA device",
      "ConnectionError: blob store" }

StepOrder == <<"parse_args", "load_index", "load_dataset", "load_weights",
               "inference", "score_start", "loop_end", "upload">>
StepsTaken == SelectSeq(log, LAMBDA e : e \in Range(StepOrder))
Count(e) == Cardinality({i \in DOMAIN log : log[i] = e})

\* C1: for every valid probability vector and every true label in range,
\* each value returned by modified_prediction_entropy_batch is finite and
\* greater than or equal to zero.
C1_MentrFiniteNonNegative ==
    \A i \in DOMAIN m_ret : IsFinite(m_ret[i]) /\ m_ret[i].v >= 0

\* C2: a run whose surroundings are in order (index file, dataset and
\* checkpoint present; also the logs directory, a CUDA device, the blob
\* store and a torch install with the deterministic-mode call) ends having
\* taken the steps parse, index and dataset load, weight load, accuracy
\* inference, scoring loop, upload, in this order.
C2_RunReachesUpload ==
    (Terminated /\ fail \notin EnvironmentFailures)
        => (uploads = 1 /\ StepsTaken = StepOrder)

\* C3: after a full pass of the scoring loop over the chosen split, every
\* position of the score array has been written exactly once.
C3_EveryPositionWrittenOnce ==
    passes > 0 => \A p \in 1..dataset_len : writes[p] = 1

\* C4: over a full pass the lengths of the slices index[start_idx:stop_idx]
\* sum to dataset_len, and no batch's slice differs in length from the batch
\* (the assignment never raises a shape mismatch).
C4_SliceLengthsSumToDatasetLen ==
    /\ passes > 0 => slice_sum = dataset_len
    /\ fail # "RuntimeError: shape mismatch"

\* C5: the uploaded score array is as long as the dataset that was scored
\* (the number of examples the chosen loader emitted).
C5_UploadedLengthIsDatasetLength ==
    uploads > 0 => Len(blob) = total /\ total = LoaderLen

\* C6 (as stated): for every input batch (batch, input_size, H, W) whose
\* sides leave the 5x5 map linear3 expects, forward returns shape
\* (batch, num_classes), and with latent=True a second value of shape
\* (batch, 84).
C6_ForwardShapesAnyBatch ==
    (/\ fwd.ret.status # "none"
     /\ fwd.x[2] = lenet.input_size
     /\ fwd.x[3] \in 28..31
     /\ fwd.x[4] \in 28..31)
        => /\ fwd.ret.status = "ok"
           /\ fwd.ret.out = <<fwd.x[1], lenet.num_classes>>
           /\ fwd.latent => fwd.ret.fet = <<fwd.x[1], 84>>

\* C6 (amended): the same for a batch of at least two examples, or a module
\* in eval mode; whenever forward returns, the shapes are (batch,
\* num_classes) and (batch, 84), and the flattened size was 5*5*16, which
\* 28x28 images give.
C6_ForwardShapes ==
    fwd.ret.status # "none" =>
        /\ (/\ fwd.x[2] = lenet.input_size
            /\ fwd.x[3] \in 28..31
            /\ fwd.x[4] \in 28..31
            /\ (fwd.x[1] >= 2 \/ ~fwd.training))
              => fwd.ret.status = "ok"
        /\ fwd.ret.status = "ok" =>
              /\ fwd.ret.out = <<fwd.x[1], lenet.num_classes>>
              /\ fwd.ret.fet = (IF fwd.latent THEN <<fwd.x[1], 84>> ELSE <<>>)
              /\ fwd.x[2] = lenet.input_size
              /\ fwd.x[3] \in 28..31 /\ fwd.x[4] \in 28..31

C6_Witness ==
    /\ fwd.ret.status = "ok"
    /\ fwd.latent
    /\ fwd.x[1] = 2 /\ fwd.x[3] = 28 /\ fwd.x[4] = 28
    /\ fwd.ret.fet = <<2, 84>>

C7_State ==
    /\ uploads <= 1
    /\ (pc = "loop" /\ batches = 0) => scores = [p \in 1..dataset_len |-> Fin(0)]
    /\ uploads = 1 => /\ total >= LoaderLen
                      /\ blob = scores
                      /\ passes = 1
    /\ uploads = 0 => blob = NoBlob
    /\ ("score_return" \in Range(log) \/ pc = "done") => uploads = 1

C7_Step ==
    /\ scores' # scores =>
          \/ pc = "score" /\ scores' = [p \in 1..dataset_len |-> Fin(0)]
          \/ pc = "loop" /\ total < LoaderLen /\ batches' = batches + 1
    /\ (blob' # blob \/ uploads' # uploads) =>
          /\ pc = "save"
          /\ total >= LoaderLen
          /\ uploads = 0 /\ uploads' = 1
          /\ blob' = scores /\ scores' = scores

\* C7: the score array is created all-zero, is modified only by the
\* per-batch assignments of the scoring loop, and is uploaded at most once,
\* exactly once in a run whose scoring function returns, only after the
\* loop has consumed every batch, unchanged since the last batch.
C7_UploadOnceAfterLoop == [](C7_State) /\ [][C7_Step]_vars

C7_Witness == uploads = 1 /\ batches >= 2 /\ pc = "done"

C8_State ==
    /\ uploads > 0 =>
          /\ index # <<>> /\ dataset_len = Len(index)
          /\ weights \in {"local_disk", "azure_blob"}
          /\ Count("inference") = 1
          /\ batches >= 1 /\ total >= LoaderLen
          /\ fail \in {"", "AssertionError: process group not initialised"}
    /\ (pc = "failed") = (fail # "")
    /\ \A e \in Range(log) : e # "batch" => Count(e) = 1

C9_DeterministicModeEnabled ==
    "seed" \in Range(log) =>
        IF args.use_seed
        THEN /\ fail # "AttributeError: use_deterministic_algorithms"
             /\ det = IF ~torch_version.local
                         /\ (torch_version.major < 1
                             \/ (torch_version.major = 1 /\ torch_version.minor < 8))
                      THEN "set_deterministic"
                      ELSE "use_deterministic_algorithms"
        ELSE osenv = {} /\ ~seeded /\ det = "none"

\* C10: the process group is destroyed only if it was initialised earlier
\* in the run, and with --dist it is initialised before the dataset is
\* loaded in distributed mode.
C10_ProcessGroupInitialisedFirst ==
    /\ "destroy_process_group" \in Range(log) => "init_process_group" \in Range(log)
    /\ (args.dist /\ dataset.distributed) => pg_init

===========================================================================
